---- MODULE Spec2Model ----
(***************************************************************************)
(* Log discovery and archival pipeline of debugutils (logs.go):            *)
(* LogRequestBuilder expands pods into per-container log requests, and     *)
(* logCollector.SaveLogs streams every request in its own errgroup task    *)
(* and hands the stream to a StorageClient.                                *)
(***************************************************************************)
EXTENDS Integers, Sequences, FiniteSets, TLC

\* ------------------------------------------------------------------ bounds
MaxContainers == 2      \* longest Spec.Containers list drawn for one pod
MaxInitContainers == 2  \* longest Spec.InitContainers list drawn for one pod
MaxPodLists == 2        \* pod lists returned by one GetPods call
MaxItems == 2           \* pods in one PodList
MaxRequests == 2        \* requests handed to one SaveLogs call
MaxOpts == 3            \* options handed to one builder call
MaxDigit == 1           \* largest major, minor or patch number of a version
MaxEntries == 2         \* entries of the changelog directory
MaxHandlers == 2        \* RegisterHandler calls on one CloudSubscriber

\* An error value: its message, the resource identifiers its text names, and,
\* as its identity, the request whose call produced it (0: not produced by a
\* request's call). The collaborators' errors name no resource identifier.
Err(msg, src) == [msg |-> msg, ids |-> {}, src |-> src]

nil == Err("nil", 0)

Namespaces == {"default"}
PodNames == {"A", "B", "C"}
StdNames == {"web", "sidecar"}
InitNames == {"migrate", "setup"}
StreamMsgs == {"transport error"}
SaveMsgs == {"storage error"}
FinderMsgs == {"discovery error"}

\* ----------------------------------------------------------------- helpers
RECURSIVE SeqsUpTo(_, _)
SeqsUpTo(S, n) ==
  IF n = 0 THEN {<<>>}
  ELSE LET shorter == SeqsUpTo(S, n - 1)
       IN shorter \cup {Append(s, x) : s \in {t \in shorter : Len(t) = n - 1}, x \in S}

RECURSIVE SumSeq(_)
SumSeq(s) == IF s = <<>> THEN 0 ELSE Head(s) + SumSeq(Tail(s))

\* --------------------------------------------------------- request options
\* corev1.PodLogOptions{} as buildLogsRequest creates it
EmptyPodLogOptions ==
  [Container |-> "", Follow |-> FALSE, Previous |-> FALSE, SinceTime |-> <<>>]

FollowLogs(options) == [options EXCEPT !.Follow = TRUE]

PreviousLogsResetting(options) == [EmptyPodLogOptions EXCEPT !.Previous = TRUE]

PreviousLogs(options) == [options EXCEPT !.Previous = TRUE]

LogsSince(since, options) == [options EXCEPT !.SinceTime = <<since>>]

\* One LogRequestOptions value f applied to the options record: f is
\* [kind |-> "FollowLogs"], [kind |-> "PreviousLogs"],
\* [kind |-> "LogsSince", since |-> t] or the nil function [kind |-> "nil"],
\* which buildLogsRequest skips.
ApplyOption(f, options) ==
  CASE f.kind = "FollowLogs" -> FollowLogs(options)
    [] f.kind = "PreviousLogs" -> PreviousLogs(options)
    [] f.kind = "LogsSince" -> LogsSince(f.since, options)
    [] OTHER -> options

RECURSIVE ApplyOptions(_, _)
ApplyOptions(optsFunc, options) ==
  IF optsFunc = <<>> THEN options
  ELSE ApplyOptions(Tail(optsFunc), ApplyOption(Head(optsFunc), options))

\* ------------------------------------------------------------- LogsRequest
\* clientset.Pods(ns).GetLogs(name, opts): the request spec is serialised
\* from opts at the call, so it keeps the Container set just before it.
GetLogs(namespace, name, opts) ==
  [Namespace |-> namespace, Name |-> name, Options |-> opts]

NewLogsRequest(podMeta, containerName, request) ==
  [podMeta |-> podMeta, containerName |-> containerName, Request |-> request]

ResourceId(lr) ==
  <<lr.podMeta.Namespace, lr.podMeta.Name, lr.containerName>>

PodMeta(pod) == [Namespace |-> pod.Namespace, Name |-> pod.Name]

\* One loop of buildLogsRequest over a container list
ContainerRequests(pod, containers, opts) ==
  [k \in 1..Len(containers) |->
     NewLogsRequest(PodMeta(pod), containers[k],
                    GetLogs(pod.Namespace, pod.Name,
                            [opts EXCEPT !.Container = containers[k]]))]

buildLogsRequestInitFirst(pod, optsFunc) ==
  LET opts == ApplyOptions(optsFunc, EmptyPodLogOptions)
  IN ContainerRequests(pod, pod.InitContainers, opts)
       \o ContainerRequests(pod, pod.Containers, opts)

buildLogsRequest(pod, optsFunc) ==
  LET opts == ApplyOptions(optsFunc, EmptyPodLogOptions)
  IN ContainerRequests(pod, pod.Containers, opts)
       \o ContainerRequests(pod, pod.InitContainers, opts)

\* RetrieveLogs calls buildLogsRequest(v) without forwarding opts
RECURSIVE RetrieveLogs(_, _)
RetrieveLogs(items, opts) ==
  IF items = <<>> THEN <<>>
  ELSE buildLogsRequest(Head(items), <<>>) \o RetrieveLogs(Tail(items), opts)

\* The loop of LogsFromUnstructured over the pod lists GetPods returned
RECURSIVE LogsFromPodListsReversed(_, _)
LogsFromPodListsReversed(podLists, opts) ==
  IF podLists = <<>> THEN <<>>
  ELSE LogsFromPodListsReversed(Tail(podLists), opts) \o RetrieveLogs(Head(podLists), opts)

RECURSIVE LogsFromPodLists(_, _)
LogsFromPodLists(podLists, opts) ==
  IF podLists = <<>> THEN <<>>
  ELSE RetrieveLogs(Head(podLists), opts) \o LogsFromPodLists(Tail(podLists), opts)

\* LogsFromUnstructured: [result, err] from the pod finder's answer
LogsFromUnstructuredKeepingPods(finderPods, finderErr, opts) ==
  [result |-> LogsFromPodLists(finderPods, opts), err |-> finderErr]

LogsFromUnstructured(finderPods, finderErr, opts) ==
  IF finderErr # nil THEN [result |-> <<>>, err |-> finderErr]
  ELSE [result |-> LogsFromPodLists(finderPods, opts), err |-> nil]

\* ------------------------------------------------------------ input spaces
Times == {1, 2}

Options ==
  {[kind |-> "FollowLogs"], [kind |-> "PreviousLogs"], [kind |-> "nil"]}
    \cup {[kind |-> "LogsSince", since |-> t] : t \in Times}

OptionLists == SeqsUpTo(Options, MaxOpts)

AllPods ==
  [Namespace : Namespaces, Name : PodNames,
   Containers : SeqsUpTo(StdNames, MaxContainers),
   InitContainers : SeqsUpTo(InitNames, MaxInitContainers)]

\* Pods of the cluster the pipeline runs against
ClusterPods ==
  { [Namespace |-> "default", Name |-> "A",
     Containers |-> <<"web">>, InitContainers |-> <<>>],
    [Namespace |-> "default", Name |-> "B",
     Containers |-> <<"web">>, InitContainers |-> <<"migrate">>] }

\* Pods of the lists the builder is applied to on its own
ExamplePods ==
  { [Namespace |-> "default", Name |-> "A",
     Containers |-> <<"web", "sidecar">>, InitContainers |-> <<>>],
    [Namespace |-> "default", Name |-> "B",
     Containers |-> <<"web">>, InitContainers |-> <<"migrate">>] }

PodAnswers == SeqsUpTo(SeqsUpTo(ExamplePods, MaxItems), MaxPodLists)

FinderAnswers ==
  {pl \in SeqsUpTo(SeqsUpTo(ClusterPods, MaxItems), MaxPodLists) :
     Len(LogsFromPodLists(pl, <<>>)) <= MaxRequests}

\* ------------------------------------------------------------------- state
VARIABLES
  finderPods,   \* what podFinder.GetPods answers: a sequence of pod lists
  mainpc,       \* caller: "start", "spawn" (in SaveLogs), "returned", "discoveryFailed"
  requests,     \* the []*LogsRequest handed to SaveLogs
  getErr,       \* error returned by GetLogRequests
  idx,          \* position of the range loop of SaveLogs
  pc,           \* per request: position of its errgroup task
  terr,         \* per request: the error its task function returns
  egErr,        \* errgroup.Group.err
  firstErrRet,  \* index of the first task whose function returned an error (0: none)
  ret,          \* what SaveLogs returned
  streamCalls,  \* per request: Stream() calls that returned
  opened,       \* per request: Stream() returned a reader
  saveCalls,    \* per request: storageClient.Save invocations
  saved,        \* per request: Save returned nil
  closeCalls,   \* per request: reader.Close() calls
  objects,      \* per request: the StorageObjects handed to Save, in order
  firstFail,    \* index of the request whose failure happened first (0: none)
  store,        \* names of the artifacts persisted at location
  cancelled,    \* the caller's cancellation signal has fired
  lateStart,    \* per request: its task was started after the signal fired
  afterFail,    \* per request: its task was started after a sibling had failed
  restRequest,  \* per task: index of the request its closure captured (0: none yet)
  finderErr,    \* the error podFinder.GetPods answers (nil: none)
  optsIn,       \* the LogRequestOptions handed to the builder
  changelogIn,  \* GetProposedTagLocal: latest tag and changelog directory read
  proposed,     \* GetProposedTagLocal: what it returned
  cloud         \* HandleCloudBuildEvent: registry, build and handler tasks

vars == <<finderPods, mainpc, requests, getErr, idx, pc, terr, egErr, firstErrRet,
          ret, streamCalls, opened, saveCalls, saved, closeCalls, objects,
          firstFail, store, cancelled, lateStart, afterFail, restRequest,
          finderErr, optsIn, changelogIn, proposed, cloud>>

\* State of the other utilities, untouched by the log pipeline
otherVars == <<changelogIn, proposed, cloud>>

Tasks == DOMAIN pc

PerRequest(n, v) == [i \in 1..n |-> v]

\* The other utilities before any call
NotCalled == [tag |-> <<>>, err |-> "not called"]

IdleChangelog ==
  /\ changelogIn = [latestTag |-> <<>>, subDirs |-> <<>>, readErr |-> FALSE]
  /\ proposed = NotCalled

\* NewCloudSubscriber: registry: &CloudBuildRegistry{}; no build received yet
NewCloudSubscriber ==
  [phase |-> "idle", registry |-> <<>>, srcErr |-> FALSE, eventHandlers |-> <<>>,
   pos |-> 1, hpc |-> <<>>, eventHandler |-> <<>>, calls |-> <<>>, herr |-> <<>>,
   logged |-> 0]

IdleCloud ==
  cloud = NewCloudSubscriber

IdleOthers == IdleChangelog /\ IdleCloud

Idle ==
  /\ mainpc = "start"
  /\ requests = <<>>
  /\ getErr = nil
  /\ idx = 1
  /\ pc = <<>>
  /\ terr = <<>>
  /\ egErr = nil
  /\ firstErrRet = 0
  /\ ret = nil
  /\ streamCalls = <<>>
  /\ opened = <<>>
  /\ saveCalls = <<>>
  /\ saved = <<>>
  /\ closeCalls = <<>>
  /\ objects = <<>>
  /\ firstFail = 0
  /\ store = {}
  /\ cancelled = FALSE
  /\ lateStart = <<>>
  /\ afterFail = <<>>
  /\ restRequest = <<>>

FinderErrs == {Err(m, 0) : m \in FinderMsgs}

Init ==
  /\ finderPods \in FinderAnswers
  /\ finderErr \in {nil} \cup FinderErrs
  /\ optsIn = <<>>
  /\ Idle
  /\ IdleOthers

\* ---------------------------------------------------------------- SaveLogs
\* The range loop hands every request to eg.Go, whatever the group's error is
GoStartsOnlyWithoutError(groupErr) == groupErr = nil

GoStarts(groupErr) == TRUE

\* "eg := errgroup.Group{}": the zero Group has no limit, so Go never waits
\* for a running task (running: tasks started and not yet returned)
GoAdmitsOneAtATime(running) == running = 0

GoAdmits(running) == TRUE

\* "if err != nil { return err }" after Stream()
AfterStreamIgnoringError(err) == "Opened"

AfterStream(err) == IF err # nil THEN "OpenErr" ELSE "Opened"

\* "defer reader.Close()": the reader is closed when the task function
\* returns, whatever Save returned
ClosesReaderOnSuccessOnly(saveErr) == saveErr = nil

ClosesReader(saveErr) == TRUE

\* &StorageObject{Resource: reader, Name: restRequest.ResourceId()}; the reader
\* is identified by the request whose Stream() produced it
StorageObjectNamedByPod(i, lr) ==
  [Resource |-> i, Name |-> <<lr.podMeta.Namespace, lr.podMeta.Name>>]

StorageObjectOf(i, lr) == [Resource |-> i, Name |-> ResourceId(lr)]

\* "restRequest := request": each closure captures the request of its own
\* iteration (n: length of the list)
CapturedLast(i, n) == n

Captured(i, n) == i

\* errgroup: errOnce.Do(func() { g.err = err }) keeps the first error returned
RecordErrLastWins(groupErr, err) == IF err # nil THEN err ELSE groupErr

RecordErr(groupErr, err) ==
  IF err # nil /\ groupErr = nil THEN err ELSE groupErr

\* eg.Wait(): wg.Wait() returns when every task started by Go has returned
WaitReadyOnFirstError == egErr # nil \/ \A i \in Tasks : pc[i] = "Done"

WaitReady == \A i \in Tasks : pc[i] = "Done"

\* "return eg.Wait()"
WaitResultRejectingEmpty(groupErr, n) ==
  IF n = 0 THEN Err("no requests", 0) ELSE groupErr

WaitResult(groupErr, n) == groupErr

\* StorageClient.Save persisting one object at location: the artifact is
\* addressed by the object's name; Save reads object.Resource and leaves
\* closing it to SaveLogs
Persist(artifacts, object) == artifacts \cup {object.Name}

\* GetLogRequests, then the caller hands the list to SaveLogs
GetLogRequests ==
  /\ mainpc = "start"
  /\ LET r == LogsFromUnstructured(finderPods, finderErr, <<>>)
         n == Len(r.result)
     IN   /\ requests' = r.result
          /\ getErr' = r.err
          /\ mainpc' = IF r.err = nil THEN "spawn" ELSE "discoveryFailed"
          /\ pc' = PerRequest(n, "Pending")
          /\ terr' = PerRequest(n, nil)
          /\ streamCalls' = PerRequest(n, 0)
          /\ opened' = PerRequest(n, FALSE)
          /\ saveCalls' = PerRequest(n, 0)
          /\ saved' = PerRequest(n, FALSE)
          /\ closeCalls' = PerRequest(n, 0)
          /\ objects' = PerRequest(n, <<>>)
          /\ lateStart' = PerRequest(n, FALSE)
          /\ afterFail' = PerRequest(n, FALSE)
          /\ restRequest' = PerRequest(n, 0)
  /\ UNCHANGED <<finderPods, idx, egErr, firstErrRet, ret, firstFail, store, cancelled,
                 finderErr, optsIn, otherVars>>

\* One iteration of "for _, request := range requests { eg.Go(...) }"
Go ==
  /\ mainpc = "spawn"
  /\ idx <= Len(requests)
  /\ GoAdmits(Cardinality({i \in Tasks : pc[i] \notin {"Pending", "Done"}}))
  /\ pc' = [pc EXCEPT ![idx] = IF GoStarts(egErr) THEN "StreamOpening" ELSE "Done"]
  /\ lateStart' = [lateStart EXCEPT ![idx] = cancelled]
  /\ afterFail' = [afterFail EXCEPT ![idx] = (firstFail # 0)]
  /\ restRequest' = [restRequest EXCEPT ![idx] = Captured(idx, Len(requests))]
  /\ idx' = idx + 1
  /\ UNCHANGED <<finderPods, mainpc, requests, getErr, terr, egErr, firstErrRet, ret,
                 streamCalls, opened, saveCalls, saved, closeCalls, objects,
                 firstFail, store, cancelled,
                 finderErr, optsIn, otherVars>>

\* restRequest.Request.Stream() returns a reader or an error
TaskStream(i) ==
  /\ pc[i] = "StreamOpening"
  /\ \E e \in {nil} \cup {Err(m, i) : m \in StreamMsgs} :
       /\ terr' = [terr EXCEPT ![i] = e]
       /\ opened' = [opened EXCEPT ![i] = (e = nil)]
       /\ pc' = [pc EXCEPT ![i] = AfterStream(e)]
       /\ firstFail' = IF e # nil /\ firstFail = 0 THEN i ELSE firstFail
  /\ streamCalls' = [streamCalls EXCEPT ![restRequest[i]] = @ + 1]
  /\ UNCHANGED <<finderPods, mainpc, requests, getErr, idx, egErr, firstErrRet, ret,
                 saveCalls, saved, closeCalls, objects, store, cancelled, lateStart, afterFail,
                 restRequest, finderErr, optsIn, otherVars>>

\* storageClient.Save(location, &StorageObject{...}) is invoked
TaskSave(i) ==
  /\ pc[i] = "Opened"
  /\ pc' = [pc EXCEPT ![i] = "Saving"]
  /\ saveCalls' = [saveCalls EXCEPT ![i] = @ + 1]
  /\ objects' = [objects EXCEPT ![i] = Append(@, StorageObjectOf(restRequest[i],
                                                            requests[restRequest[i]]))]
  /\ UNCHANGED <<finderPods, mainpc, requests, getErr, idx, terr, egErr, firstErrRet,
                 ret, streamCalls, opened, saved, closeCalls, firstFail, store,
                 cancelled, lateStart, afterFail,
                 restRequest, finderErr, optsIn, otherVars>>

\* storageClient.Save returns: nil with the artifact persisted, or an error
SaveReturns(i) ==
  /\ pc[i] = "Saving"
  /\ \E e \in {nil} \cup {Err(m, i) : m \in SaveMsgs} :
       /\ terr' = [terr EXCEPT ![i] = e]
       /\ saved' = [saved EXCEPT ![i] = (e = nil)]
       /\ store' = IF e = nil THEN Persist(store, objects[i][Len(objects[i])]) ELSE store
       /\ firstFail' = IF e # nil /\ firstFail = 0 THEN i ELSE firstFail
  /\ pc' = [pc EXCEPT ![i] = "SaveDone"]
  /\ UNCHANGED <<finderPods, mainpc, requests, getErr, idx, egErr, firstErrRet, ret,
                 streamCalls, opened, saveCalls, closeCalls, objects, cancelled,
                 lateStart, afterFail,
                 restRequest, finderErr, optsIn, otherVars>>

\* the deferred reader.Close() runs as the task function returns
TaskClose(i) ==
  /\ pc[i] = "SaveDone"
  /\ closeCalls' = [closeCalls EXCEPT ![i] = IF ClosesReader(terr[i]) THEN @ + 1 ELSE @]
  /\ pc' = [pc EXCEPT ![i] = "Closed"]
  /\ UNCHANGED <<finderPods, mainpc, requests, getErr, idx, terr, egErr, firstErrRet,
                 ret, streamCalls, opened, saveCalls, saved, objects, firstFail,
                 store, cancelled, lateStart, afterFail,
                 restRequest, finderErr, optsIn, otherVars>>

\* the task function has returned to the errgroup wrapper: errOnce, wg.Done()
TaskReturn(i) ==
  /\ pc[i] \in {"OpenErr", "Closed"}
  /\ egErr' = RecordErr(egErr, terr[i])
  /\ firstErrRet' = IF terr[i] # nil /\ firstErrRet = 0 THEN i ELSE firstErrRet
  /\ pc' = [pc EXCEPT ![i] = "Done"]
  /\ UNCHANGED <<finderPods, mainpc, requests, getErr, idx, terr, ret, streamCalls,
                 opened, saveCalls, saved, closeCalls, objects, firstFail, store,
                 cancelled, lateStart, afterFail,
                 restRequest, finderErr, optsIn, otherVars>>

\* "return eg.Wait()" after the loop
WaitReturn ==
  /\ mainpc = "spawn"
  /\ idx > Len(requests)
  /\ WaitReady
  /\ ret' = WaitResult(egErr, Len(requests))
  /\ mainpc' = "returned"
  /\ UNCHANGED <<finderPods, requests, getErr, idx, pc, terr, egErr, firstErrRet,
                 streamCalls, opened, saveCalls, saved, closeCalls, objects,
                 firstFail, store, cancelled, lateStart, afterFail,
                 restRequest, finderErr, optsIn, otherVars>>

\* The caller's cancellation signal fires while SaveLogs runs; SaveLogs takes
\* no context and reads no such signal
Cancel ==
  /\ mainpc = "spawn"
  /\ ~cancelled
  /\ cancelled' = TRUE
  /\ UNCHANGED <<finderPods, mainpc, requests, getErr, idx, pc, terr, egErr,
                 firstErrRet, ret, streamCalls, opened, saveCalls, saved,
                 closeCalls, objects, firstFail, store, lateStart, afterFail,
                 restRequest, finderErr, optsIn, otherVars>>

Next ==
  \/ GetLogRequests
  \/ Go
  \/ \E i \in Tasks : TaskStream(i)
  \/ \E i \in Tasks : TaskSave(i)
  \/ \E i \in Tasks : SaveReturns(i)
  \/ \E i \in Tasks : TaskClose(i)
  \/ \E i \in Tasks : TaskReturn(i)
  \/ WaitReturn
  \/ Cancel

Spec == Init /\ [][Next]_vars

\* ------------------------------------------------- the builder on one pod
\* buildLogsRequest applied to one pod drawn from AllPods
InitBuild ==
  /\ finderPods \in {<< <<p>> >> : p \in AllPods}
  /\ finderErr = nil
  /\ optsIn = <<>>
  /\ Idle
  /\ IdleOthers

BuildPod ==
  /\ mainpc = "start"
  /\ finderPods # <<>> /\ finderPods[1] # <<>>
  /\ requests' = buildLogsRequest(finderPods[1][1], optsIn)
  /\ mainpc' = "built"
  /\ UNCHANGED <<finderPods, getErr, idx, pc, terr, egErr, firstErrRet, ret,
                 streamCalls, opened, saveCalls, saved, closeCalls, objects,
                 firstFail, store, cancelled, lateStart, afterFail,
                 restRequest, finderErr, optsIn, otherVars>>

NextBuild == BuildPod

SpecBuild == InitBuild /\ [][NextBuild]_vars

\* ------------------------------------------ the builder on the pod lists
\* LogsFromUnstructured applied to what the pod finder answers
InitPods ==
  /\ finderPods \in PodAnswers
  /\ finderErr \in {nil} \cup FinderErrs
  /\ optsIn = <<>>
  /\ Idle
  /\ IdleOthers

CallLogsFromUnstructured ==
  /\ mainpc = "start"
  /\ LET r == LogsFromUnstructured(finderPods, finderErr, optsIn)
     IN /\ requests' = r.result
        /\ getErr' = r.err
        /\ mainpc' = IF r.err = nil THEN "listed" ELSE "discoveryFailed"
  /\ UNCHANGED <<finderPods, idx, pc, terr, egErr, firstErrRet, ret,
                 streamCalls, opened, saveCalls, saved, closeCalls, objects,
                 firstFail, store, cancelled, lateStart, afterFail,
                 restRequest, finderErr, optsIn, otherVars>>

NextPods == CallLogsFromUnstructured

SpecPods == InitPods /\ [][NextPods]_vars

\* ------------------------------------------------ the builder's options
\* LogsFromUnstructured and buildLogsRequest called with a list of options
InitOpts ==
  /\ finderPods \in FinderAnswers
  /\ finderErr = nil
  /\ optsIn \in OptionLists
  /\ Idle
  /\ IdleOthers

NextOpts ==
  \/ CallLogsFromUnstructured
  \/ BuildPod

SpecOpts == InitOpts /\ [][NextOpts]_vars

\* ------------------------------------------------- SaveLogs under fairness
\* A call that never returns: Stream() blocking for ever, or Save reading a
\* stream that never ends (as under Follow); the task stays in the call
NeverReturns(i) ==
  /\ pc[i] \in {"StreamOpening", "Saving"}
  /\ pc' = [pc EXCEPT ![i] = IF pc[i] = "Saving" THEN "SaveHung" ELSE "OpenHung"]
  /\ UNCHANGED <<finderPods, mainpc, requests, getErr, idx, terr, egErr, firstErrRet,
                 ret, streamCalls, opened, saveCalls, saved, closeCalls, objects,
                 firstFail, store, cancelled, lateStart, afterFail,
                 restRequest, finderErr, optsIn, otherVars>>

\* A step of task i that is the task's own to take
TaskStep(i) ==
  /\ i \in Tasks
  /\ TaskStream(i) \/ TaskSave(i) \/ SaveReturns(i) \/ TaskClose(i) \/ TaskReturn(i)

NextLive ==
  \/ GetLogRequests
  \/ Go
  \/ \E i \in Tasks : TaskStream(i)
  \/ \E i \in Tasks : TaskSave(i)
  \/ \E i \in Tasks : SaveReturns(i)
  \/ \E i \in Tasks : TaskClose(i)
  \/ \E i \in Tasks : TaskReturn(i)
  \/ \E i \in Tasks : NeverReturns(i)
  \/ WaitReturn

\* The Go scheduler runs every runnable goroutine, and a call that does not
\* block for ever returns
Fairness ==
  /\ WF_vars(GetLogRequests)
  /\ WF_vars(Go)
  /\ WF_vars(WaitReturn)
  /\ \A i \in 1..MaxRequests : WF_vars(TaskStep(i))

SpecLive == Init /\ [][NextLive]_vars /\ Fairness

\* ------------------------------------------------------ GetProposedTagLocal
\* A name is the tuple of the numbers of "vX.Y.Z" (<<X, Y, Z>>); a name of
\* another form is a tuple of another length; "" is <<>>.
MatchesRegex(name) == Len(name) = 3

\* versionutils.IsGreaterThanTag(greater, lesser): [greater, err]; it fails
\* on a tag that is no version, and compares major, minor, patch in turn
IsGreaterThanTag(greater, lesser) ==
  IF ~MatchesRegex(greater) \/ ~MatchesRegex(lesser)
  THEN [greater |-> FALSE, err |-> TRUE]
  ELSE [greater |->
          \/ greater[1] > lesser[1]
          \/ greater[1] = lesser[1] /\ greater[2] > lesser[2]
          \/ greater[1] = lesser[1] /\ greater[2] = lesser[2] /\ greater[3] > lesser[3],
        err |-> FALSE]

\* One iteration of the loop over subDirs: [tag, err], tag the
\* proposedVersion so far and err "none" while the loop goes on
ScanStepKeepingLast(subDir, latestTag, proposedVersion) ==
  IF ~subDir.isDir THEN [tag |-> <<>>, err |-> "unexpected entry"]
  ELSE IF ~MatchesRegex(subDir.name) THEN [tag |-> <<>>, err |-> "invalid name"]
  ELSE LET cmp == IsGreaterThanTag(subDir.name, latestTag)
       IN IF cmp.err THEN [tag |-> <<>>, err |-> "compare"]
          ELSE IF cmp.greater THEN [tag |-> subDir.name, err |-> "none"]
          ELSE [tag |-> proposedVersion, err |-> "none"]

ScanStep(subDir, latestTag, proposedVersion) ==
  IF ~subDir.isDir THEN [tag |-> <<>>, err |-> "unexpected entry"]
  ELSE IF ~MatchesRegex(subDir.name) THEN [tag |-> <<>>, err |-> "invalid name"]
  ELSE LET cmp == IsGreaterThanTag(subDir.name, latestTag)
       IN IF cmp.err THEN [tag |-> <<>>, err |-> "compare"]
          ELSE IF cmp.greater
               THEN IF proposedVersion # <<>>
                    THEN [tag |-> <<>>, err |-> "both greater"]
                    ELSE [tag |-> subDir.name, err |-> "none"]
          ELSE [tag |-> proposedVersion, err |-> "none"]

RECURSIVE ScanSubDirs(_, _, _)
ScanSubDirs(subDirs, latestTag, proposedVersion) ==
  IF subDirs = <<>>
  THEN IF proposedVersion = <<>>
       THEN [tag |-> <<>>, err |-> "none greater"]
       ELSE [tag |-> proposedVersion, err |-> "none"]
  ELSE LET step == ScanStep(Head(subDirs), latestTag, proposedVersion)
       IN IF step.err # "none" THEN step
          ELSE ScanSubDirs(Tail(subDirs), latestTag, step.tag)

GetProposedTagLocal(latestTag, dir) ==
  IF dir.readErr THEN [tag |-> <<>>, err |-> "read dir"]
  ELSE ScanSubDirs(dir.subDirs, latestTag, <<>>)

\* Version names in the order ioutil.ReadDir lists them (by file name)
Base == MaxDigit + 1

VersionNames ==
  [k \in 1..(Base * Base * Base) |->
     <<(k - 1) \div (Base * Base), ((k - 1) \div Base) % Base, (k - 1) % Base>>]

\* What the changelog directory may hold, as ReadDir sorts it: a file, the
\* version directories and a directory named "v0.1"
DirUniverse ==
  << [name |-> <<9>>, isDir |-> FALSE] >>
    \o [k \in DOMAIN VersionNames |-> [name |-> VersionNames[k], isDir |-> TRUE]]
    \o << [name |-> <<0, 1>>, isDir |-> TRUE] >>

RECURSIVE SubsetsUpTo(_, _)
SubsetsUpTo(S, n) ==
  IF n = 0 THEN {{}}
  ELSE LET smaller == SubsetsUpTo(S, n - 1)
       IN smaller \cup {t \cup {x} : t \in smaller, x \in S}

Listing(entries) ==
  LET Kept(e) == e \in entries IN SelectSeq(DirUniverse, Kept)

ChangelogInputs ==
  [latestTag : {VersionNames[k] : k \in DOMAIN VersionNames} \cup {<<0, 1>>},
   subDirs : {Listing(e) : e \in SubsetsUpTo({DirUniverse[k] : k \in DOMAIN DirUniverse},
                                             MaxEntries)},
   readErr : BOOLEAN]

InitChangelog ==
  /\ changelogIn \in ChangelogInputs
  /\ proposed = NotCalled
  /\ IdleCloud
  /\ finderPods = <<>>
  /\ finderErr = nil
  /\ optsIn = <<>>
  /\ Idle

CallGetProposedTagLocal ==
  /\ proposed = NotCalled
  /\ proposed' = GetProposedTagLocal(changelogIn.latestTag, changelogIn)
  /\ UNCHANGED <<finderPods, mainpc, requests, getErr, idx, pc, terr, egErr,
                 firstErrRet, ret, streamCalls, opened, saveCalls, saved,
                 closeCalls, objects, firstFail, store, cancelled, lateStart,
                 afterFail, restRequest, finderErr, optsIn, changelogIn, cloud>>

NextChangelog == CallGetProposedTagLocal

SpecChangelog == InitChangelog /\ [][NextChangelog]_vars

\* ---------------------------------------------------- HandleCloudBuildEvent
Handlers == {"h1", "h2"}

\* CloudBuildRegistry.AddEventHandler: the handler is appended to eventHandlers
AddEventHandler(eventHandlers, handler) == Append(eventHandlers, handler)

\* "if err := HandleFailedSourceBuild(ctx, build); err != nil { return }"
AfterSourceCheckIgnoringError(err) == "dispatch"

AfterSourceCheck(err) == IF err THEN "returned" ELSE "dispatch"

exceptCloud ==
  <<finderPods, mainpc, requests, getErr, idx, pc, terr, egErr, firstErrRet, ret,
    streamCalls, opened, saveCalls, saved, closeCalls, objects, firstFail, store,
    cancelled, lateStart, afterFail, restRequest, finderErr, optsIn, changelogIn,
    proposed>>

InitCloud ==
  /\ IdleCloud
  /\ IdleChangelog
  /\ finderPods = <<>>
  /\ finderErr = nil
  /\ optsIn = <<>>
  /\ Idle

\* cs.RegisterHandler(handler), at any time of the subscriber's life
RegisterHandler(handler) ==
  /\ Len(cloud.registry) < MaxHandlers
  /\ cloud' = [cloud EXCEPT !.registry = AddEventHandler(@, handler)]
  /\ UNCHANGED exceptCloud

\* HandleCloudBuildEvent is entered for a build and calls HandleFailedSourceBuild
CallHandleCloudBuildEvent ==
  /\ cloud.phase = "idle"
  /\ cloud' = [cloud EXCEPT !.phase = "checkSource"]
  /\ UNCHANGED exceptCloud

\* HandleFailedSourceBuild returns; without error the range statement reads
\* registry.eventHandlers once, and the loop runs over that slice
FailedSourceBuildReturns ==
  /\ cloud.phase = "checkSource"
  /\ \E err \in BOOLEAN :
       LET ranged == IF AfterSourceCheck(err) = "dispatch" THEN cloud.registry ELSE <<>>
           n == Len(ranged)
       IN cloud' = [cloud EXCEPT !.srcErr = err,
                                 !.phase = AfterSourceCheck(err),
                                 !.eventHandlers = ranged,
                                 !.hpc = [k \in 1..n |-> "NotStarted"],
                                 !.eventHandler = [k \in 1..n |-> "none"],
                                 !.calls = [k \in 1..n |-> 0],
                                 !.herr = [k \in 1..n |-> FALSE]]
  /\ UNCHANGED exceptCloud

\* One iteration: "eventHandler := eventHandler; go func() {...}()"
GoEventHandler ==
  /\ cloud.phase = "dispatch"
  /\ cloud.pos <= Len(cloud.eventHandlers)
  /\ cloud' = [cloud EXCEPT !.hpc[cloud.pos] = "Started",
                            !.eventHandler[cloud.pos] = cloud.eventHandlers[cloud.pos],
                            !.pos = @ + 1]
  /\ UNCHANGED exceptCloud

\* The loop is over and HandleCloudBuildEvent returns; it waits for no task
DispatchReturns ==
  /\ cloud.phase = "dispatch"
  /\ cloud.pos > Len(cloud.eventHandlers)
  /\ cloud' = [cloud EXCEPT !.phase = "returned"]
  /\ UNCHANGED exceptCloud

\* Task k invokes eventHandler.CloudBuild(ctx, client, build)
CloudBuildCalled(k) ==
  /\ cloud.hpc[k] = "Started"
  /\ cloud' = [cloud EXCEPT !.hpc[k] = "Running", !.calls[k] = @ + 1]
  /\ UNCHANGED exceptCloud

\* CloudBuild returns to task k; an error is logged and the task ends
CloudBuildReturns(k) ==
  /\ cloud.hpc[k] = "Running"
  /\ \E err \in BOOLEAN :
       cloud' = [cloud EXCEPT !.hpc[k] = "Done",
                              !.herr[k] = err,
                              !.logged = IF err THEN @ + 1 ELSE @]
  /\ UNCHANGED exceptCloud

NextCloud ==
  \/ \E handler \in Handlers : RegisterHandler(handler)
  \/ CallHandleCloudBuildEvent
  \/ FailedSourceBuildReturns
  \/ GoEventHandler
  \/ DispatchReturns
  \/ \E k \in DOMAIN cloud.hpc : CloudBuildCalled(k)
  \/ \E k \in DOMAIN cloud.hpc : CloudBuildReturns(k)

SpecCloud == InitCloud /\ [][NextCloud]_vars

\* ------------------------------------------------------------------ claims
Returned == mainpc = "returned"

N == Len(requests)

OpenFailed == {i \in Tasks : streamCalls[i] > 0 /\ ~opened[i]}

Opened == {i \in Tasks : opened[i]}

Saved == {i \in Tasks : saved[i]}

Failed == {i \in Tasks : terr[i] # nil}

K == Cardinality(OpenFailed)

AllSavesSucceeded == \A i \in Tasks : terr[i] = nil \/ ~opened[i]

SaveOncePerOpened ==
  /\ \A i \in Tasks : saveCalls[i] = (IF opened[i] THEN 1 ELSE 0)
  /\ SumSeq(saveCalls) = N - K

\* C1 (as stated): with N >= 1 requests of which K fail to open and every Save
\* succeeding, SaveLogs invokes Save exactly N-K times, once per opened
\* request and never for a failed open, and returns an error.
C1_Original ==
  (Returned /\ N >= 1 /\ AllSavesSucceeded) => (SaveOncePerOpened /\ ret # nil)

\* C1 (amended): as above, but SaveLogs returns an error exactly when K >= 1
\* and returns nil when K = 0.
C1_SaveCountAndError ==
  (Returned /\ N >= 1 /\ AllSavesSucceeded)
    => (SaveOncePerOpened /\ (ret # nil <=> K >= 1))

C1_Witness ==
  Returned /\ N = 2 /\ K = 1 /\ AllSavesSucceeded /\ SumSeq(saveCalls) = 1 /\ ret # nil

\* C2: a request's failure never keeps another request from being processed:
\* every task that has finished, and every task once SaveLogs has returned,
\* has had its stream opened and, if the open succeeded, its Save invoked.
C2_NoSiblingCancels ==
  \A i \in Tasks :
    (pc[i] = "Done" \/ Returned)
      => (streamCalls[i] = 1 /\ (opened[i] => saveCalls[i] = 1))

C2_Witness ==
  Returned /\ \E i \in Tasks : afterFail[i] /\ egErr # nil /\ saved[i]

\* C3: SaveLogs returns only when every request's task is terminal; it has
\* not returned while a task is opening, streaming, saving or closing.
C3_JoinAll == Returned => \A i \in Tasks : pc[i] = "Done"

C3_Witness ==
  /\ Returned
  /\ \E i, j \in Tasks : firstErrRet = i /\ j # i /\ saved[j] /\ ~afterFail[j]

\* C4: every opened stream is closed exactly once by SaveLogs: never twice,
\* once for each finished task whose open succeeded (whatever Save returned),
\* never for a failed open, so on return closes equal successful opens.
C4_CloseOnce ==
  /\ \A i \in Tasks : closeCalls[i] <= 1
  /\ \A i \in Tasks :
       (pc[i] = "Done" \/ Returned) => closeCalls[i] = (IF opened[i] THEN 1 ELSE 0)
  /\ Returned => SumSeq(closeCalls) = Cardinality(Opened)

C4_Witness ==
  /\ Returned
  /\ \E i, j \in Tasks :
       /\ opened[i] /\ terr[i] # nil /\ closeCalls[i] = 1
       /\ ~opened[j] /\ closeCalls[j] = 0

\* C5: SaveLogs on an empty request list returns nil, opens no stream, calls
\* Save for nothing and persists nothing.
C5_EmptyList ==
  (Returned /\ requests = <<>>)
    => (ret = nil /\ SumSeq(streamCalls) = 0 /\ SumSeq(saveCalls) = 0 /\ store = {})

C5_Witness == Returned /\ requests = <<>> /\ getErr = nil

\* C6 (as stated): SaveLogs returns an error iff some request failed, and the
\* error is that of the request that was first to fail.
C6_Original ==
  Returned => ((ret # nil <=> Failed # {}) /\ (ret # nil => ret.src = firstFail))

\* C6 (amended): SaveLogs returns an error iff some request failed, and the
\* error is the one of the first task function to return an error to the
\* group, which is the error of a failed request, unchanged.
C6_FirstReturnedError ==
  Returned =>
    /\ ret # nil <=> Failed # {}
    /\ ret # nil => (firstErrRet \in Failed /\ ret = terr[firstErrRet])

C6_Witness ==
  Returned /\ firstFail # 0 /\ firstErrRet # firstFail /\ ret = terr[firstErrRet]

\* C7: the error SaveLogs returns names the resource identifier of the
\* request that failed.
C7_ErrorNamesRequest ==
  (Returned /\ ret # nil) => ResourceId(requests[ret.src]) \in ret.ids

\* C8: once the caller has cancelled, a task that had not started opens no
\* stream.
C8_CancelStopsNewStreams ==
  \A i \in Tasks : lateStart[i] => (streamCalls[i] = 0 /\ ~opened[i])

DistinctIds ==
  \A i, j \in Tasks : ResourceId(requests[i]) = ResourceId(requests[j]) => i = j

\* C9 (as stated): after SaveLogs returns every saved request has its artifact
\* named by its ResourceId and the number of artifacts equals the number of
\* saved requests, for every list the builder can produce.
C9_Original ==
  Returned =>
    /\ \A i \in Saved : ResourceId(requests[i]) \in store
    /\ Cardinality(store) = Cardinality(Saved)

\* C9 (amended): at every moment the artifacts are exactly those named by the
\* ResourceIds of the requests saved so far, whatever happens to the other
\* requests; their number equals the number of saved requests when the
\* requests' ResourceIds are pairwise distinct.
C9_ArtifactsAreSavedIds ==
  /\ store = {ResourceId(requests[i]) : i \in Saved}
  /\ DistinctIds => Cardinality(store) = Cardinality(Saved)

C9_Witness ==
  /\ Returned
  /\ \E i, j \in Saved : i # j /\ ResourceId(requests[i]) = ResourceId(requests[j])
  /\ Cardinality(store) < Cardinality(Saved)

BuiltPod == finderPods[1][1]

\* C10: for a pod with c standard and i init containers buildLogsRequest
\* yields c+i requests, request k carrying the k-th standard container's name
\* and request c+k the k-th init container's, each for that pod; none for a
\* pod without containers.
C10_OnePerContainer ==
  mainpc = "built" =>
    LET c == Len(BuiltPod.Containers)
        n == Len(BuiltPod.InitContainers)
    IN /\ Len(requests) = c + n
       /\ \A k \in 1..c :
            /\ requests[k].containerName = BuiltPod.Containers[k]
            /\ requests[k].Request.Options.Container = BuiltPod.Containers[k]
       /\ \A k \in 1..n :
            /\ requests[c + k].containerName = BuiltPod.InitContainers[k]
            /\ requests[c + k].Request.Options.Container = BuiltPod.InitContainers[k]
       /\ \A k \in 1..(c + n) :
            /\ requests[k].podMeta = PodMeta(BuiltPod)
            /\ requests[k].Request.Namespace = BuiltPod.Namespace
            /\ requests[k].Request.Name = BuiltPod.Name

C10_Witness ==
  /\ mainpc = "built"
  /\ Len(BuiltPod.Containers) = 2
  /\ Len(BuiltPod.InitContainers) = 1
  /\ Len(requests) = 3
  /\ requests[3].containerName = BuiltPod.InitContainers[1]

\* The pods of the finder's answer in iteration order, and the
\* <<pod name, container name>> pairs they hold, standard containers first
RECURSIVE FlatPods(_)
FlatPods(podLists) ==
  IF podLists = <<>> THEN <<>> ELSE Head(podLists) \o FlatPods(Tail(podLists))

PairsOfPod(pod) ==
  [k \in 1..(Len(pod.Containers) + Len(pod.InitContainers)) |->
     <<pod.Name,
       IF k <= Len(pod.Containers) THEN pod.Containers[k]
       ELSE pod.InitContainers[k - Len(pod.Containers)]>>]

RECURSIVE PairsOfPods(_)
PairsOfPods(pods) ==
  IF pods = <<>> THEN <<>> ELSE PairsOfPod(Head(pods)) \o PairsOfPods(Tail(pods))

RequestPairs ==
  [k \in 1..Len(requests) |-> <<requests[k].podMeta.Name, requests[k].containerName>>]

PodA == CHOOSE p \in ExamplePods : p.Name = "A"

PodB == CHOOSE p \in ExamplePods : p.Name = "B"

\* C11: LogsFromUnstructured returns the per-pod request lists concatenated
\* in pod-iteration order and, within a pod, container order, nothing dropped
\* or merged: (A,web), (A,sidecar), (B,web), (B,migrate) for pods A and B, and
\* a pod listed twice contributes twice.
C11_ConcatInOrder ==
  mainpc = "listed" =>
    /\ RequestPairs = PairsOfPods(FlatPods(finderPods))
    /\ FlatPods(finderPods) = <<PodA, PodB>> =>
         RequestPairs = << <<"A", "web">>, <<"A", "sidecar">>,
                           <<"B", "web">>, <<"B", "migrate">> >>
    /\ FlatPods(finderPods) = <<PodB, PodB>> =>
         RequestPairs = << <<"B", "web">>, <<"B", "migrate">>,
                           <<"B", "web">>, <<"B", "migrate">> >>

C11_Witness ==
  /\ mainpc = "listed"
  /\ FlatPods(finderPods) = <<PodA, PodB>>
  /\ Len(requests) = 4
  /\ requests[2].containerName = "sidecar"
  /\ requests[4].containerName = "migrate"

SuppliedKinds == {optsIn[j].kind : j \in DOMAIN optsIn}

SincePositions == {j \in DOMAIN optsIn : optsIn[j].kind = "LogsSince"}

LastSince ==
  IF SincePositions = {} THEN <<>>
  ELSE <<optsIn[CHOOSE j \in SincePositions : \A l \in SincePositions : l <= j].since>>

\* The options record a request spec carries when the supplied options were
\* applied in order: each sets its own field only, the last LogsSince wins
AsSupplied(o) ==
  /\ o.Follow = ("FollowLogs" \in SuppliedKinds)
  /\ o.Previous = ("PreviousLogs" \in SuppliedKinds)
  /\ o.SinceTime = LastSince

\* C12: the options supplied to LogsFromUnstructured are applied to every
\* request it returns.
C12_OptionsApplied ==
  mainpc = "listed" => \A k \in DOMAIN requests : AsSupplied(requests[k].Request.Options)

Since1 == [kind |-> "LogsSince", since |-> 1]

\* C13: options compose by sequential application onto one record: every
\* request buildLogsRequest builds carries Follow and Previous exactly when
\* the option was in the list and the time of the last LogsSince;
\* LogsSince(1) then PreviousLogs leaves SinceTime = 1 and Previous = true.
C13_OptionsCompose ==
  mainpc = "built" =>
    \A k \in DOMAIN requests :
      /\ AsSupplied(requests[k].Request.Options)
      /\ optsIn = <<Since1, [kind |-> "PreviousLogs"]>> =>
           /\ requests[k].Request.Options.SinceTime = <<1>>
           /\ requests[k].Request.Options.Previous
           /\ ~requests[k].Request.Options.Follow

C13_Witness ==
  /\ mainpc = "built"
  /\ optsIn = <<Since1, [kind |-> "LogsSince", since |-> 2], [kind |-> "PreviousLogs"]>>
  /\ requests # <<>>
  /\ requests[1].Request.Options.SinceTime = <<2>>
  /\ requests[1].Request.Options.Previous

\* C14: when the pod finder fails, GetLogRequests (LogsFromUnstructured)
\* returns the finder's error itself and no request list, whatever pods the
\* finder answered with; it fails only then.
C14_DiscoveryErrorUnchanged ==
  /\ (finderErr # nil /\ mainpc # "start") =>
       /\ mainpc = "discoveryFailed"
       /\ getErr = finderErr
       /\ requests = <<>>
       /\ Tasks = {}
  /\ mainpc = "discoveryFailed" => finderErr # nil

C14_Witness ==
  /\ mainpc = "discoveryFailed"
  /\ finderPods # <<>>
  /\ finderErr \in FinderErrs
  /\ getErr = finderErr
  /\ requests = <<>>

\* The subdirectories whose version is greater than the latest tag by semver
GreaterDirs ==
  {j \in DOMAIN changelogIn.subDirs :
     LET d == changelogIn.subDirs[j]
         t == changelogIn.latestTag
     IN /\ d.isDir /\ Len(d.name) = 3 /\ Len(t) = 3
        /\ \E p \in 1..3 : d.name[p] > t[p] /\ \A q \in 1..(p - 1) : d.name[q] = t[q]}

TheGreaterDir == changelogIn.subDirs[CHOOSE j \in GreaterDirs : TRUE].name

Called == proposed # NotCalled

\* Readable directory holding only directories named vX.Y.Z, valid latest tag
WellFormedChangelog ==
  /\ ~changelogIn.readErr
  /\ Len(changelogIn.latestTag) = 3
  /\ \A j \in DOMAIN changelogIn.subDirs :
       changelogIn.subDirs[j].isDir /\ Len(changelogIn.subDirs[j].name) = 3

Phase(i) ==
  CASE pc[i] = "Pending" -> "Pending"
    [] pc[i] = "StreamOpening" -> "StreamOpening"
    [] pc[i] = "OpenErr" -> "StreamOpenFailed"
    [] pc[i] \in {"Opened", "Saving"} -> "Streaming"
    [] pc[i] \in {"SaveDone", "Closed"} -> IF saved[i] THEN "Saved" ELSE "SaveFailed"
    [] OTHER -> IF ~opened[i] THEN "StreamOpenFailed"
                ELSE IF saved[i] THEN "Saved" ELSE "SaveFailed"

TerminalPhases == {"StreamOpenFailed", "Saved", "SaveFailed"}

PhaseSteps ==
  {<<"Pending", "StreamOpening">>,
   <<"StreamOpening", "StreamOpenFailed">>, <<"StreamOpening", "Streaming">>,
   <<"Streaming", "Saved">>, <<"Streaming", "SaveFailed">>}

\* C16: each request follows Pending -> StreamOpening -> {StreamOpenFailed |
\* Streaming} -> {Saved | SaveFailed} and never goes back; Save starts only
\* after the request's stream opened, the stream is closed only after the
\* Save attempt completed, whether it succeeded or failed, and a request in
\* StreamOpenFailed, Saved or SaveFailed opens no stream, starts no Save and
\* changes state no more.
C16_StateMachine ==
  /\ [](\A i \in Tasks :
          /\ saveCalls[i] > 0 => opened[i]
          /\ closeCalls[i] > 0 => (saveCalls[i] = 1 /\ Phase(i) \in {"Saved", "SaveFailed"})
          /\ (pc[i] = "Done" /\ opened[i]) => closeCalls[i] = 1
          /\ ~opened[i] => closeCalls[i] = 0)
  /\ [][\A i \in Tasks :
          /\ Phase(i)' = Phase(i) \/ <<Phase(i), Phase(i)'>> \in PhaseSteps
          /\ saveCalls'[i] # saveCalls[i] => (Phase(i) = "Streaming" /\ opened[i])
          /\ closeCalls'[i] # closeCalls[i] => pc[i] = "SaveDone"
          /\ Phase(i) \in TerminalPhases =>
               /\ Phase(i)' = Phase(i)
               /\ streamCalls'[i] = streamCalls[i]
               /\ saveCalls'[i] = saveCalls[i]
               /\ opened'[i] = opened[i]
               /\ saved'[i] = saved[i]
               /\ objects'[i] = objects[i]]_vars

C16_Witness ==
  /\ N = 2
  /\ pc[1] = "Done" /\ Phase(1) = "SaveFailed" /\ closeCalls[1] = 1
  /\ Phase(2) = "StreamOpenFailed" /\ saveCalls[2] = 0

\* C17: SaveLogs starts one task per request without pool or limit and does
\* not serialize the storage client: while requests remain the loop can start
\* the next task whatever the running tasks do, each started task can open
\* its stream and each task whose stream opened can call Save whatever the
\* other tasks do, so all the Save calls can be in progress together.
C17_UnboundedFanOut ==
  /\ (mainpc = "spawn" /\ idx <= Len(requests)) => ENABLED Go
  /\ mainpc \in {"spawn", "returned"} =>
       \A i \in Tasks : (i < idx) <=> (pc[i] # "Pending")
  /\ \A i \in Tasks :
       /\ pc[i] = "StreamOpening" => ENABLED TaskStream(i)
       /\ pc[i] = "Opened" => ENABLED TaskSave(i)

C17_Witness ==
  /\ N = MaxRequests
  /\ \A i \in Tasks : pc[i] = "Saving" /\ saveCalls[i] = 1 /\ ~saved[i]

\* C18: every request of the list is consumed exactly once by exactly one
\* task: task i works on request i, the request's stream is opened at most
\* once and exactly once when its task is past the open (so for every
\* request when SaveLogs returns), and the object handed to Save pairs the
\* stream opened from request i with the ResourceId of request i.
C18_ConsumedOnce ==
  \A i \in Tasks :
    /\ restRequest[i] \in {0, i}
    /\ pc[i] # "Pending" => restRequest[i] = i
    /\ streamCalls[i] <= 1
    /\ pc[i] \notin {"Pending", "StreamOpening"} => streamCalls[i] = 1
    /\ mainpc = "returned" => streamCalls[i] = 1
    /\ Len(objects[i]) <= 1
    /\ \A k \in DOMAIN objects[i] :
         /\ objects[i][k].Resource = i
         /\ objects[i][k].Name = ResourceId(requests[i])

C18_Witness ==
  /\ mainpc = "returned"
  /\ N = 2
  /\ \A i \in Tasks : streamCalls[i] = 1 /\ Len(objects[i]) = 1 /\ saved[i]
  /\ objects[1][1].Name # objects[2][1].Name
  /\ objects[1][1].Resource = 1 /\ objects[2][1].Resource = 2

HandlerTasks == DOMAIN cloud.hpc

\* C19: HandleCloudBuildEvent invokes no registered handler when
\* HandleFailedSourceBuild returns an error; otherwise, for each handler in
\* the registry when the loop over it begins (once for each registration),
\* it starts that handler's CloudBuild exactly once in a task of its own, and
\* a handler's error stops neither the loop nor the other tasks.
C19_DispatchToEveryHandler ==
  /\ cloud.srcErr =>
       /\ cloud.phase = "returned"
       /\ HandlerTasks = {}
  /\ cloud.phase \in {"idle", "checkSource"} => HandlerTasks = {}
  /\ cloud.phase \in {"dispatch", "returned"} =>
       /\ HandlerTasks = DOMAIN cloud.eventHandlers
       /\ \A k \in HandlerTasks :
            /\ cloud.calls[k] <= 1
            /\ cloud.hpc[k] \in {"Running", "Done"} <=> cloud.calls[k] = 1
            /\ cloud.hpc[k] # "NotStarted" => cloud.eventHandler[k] = cloud.eventHandlers[k]
            /\ cloud.hpc[k] = "Started" => ENABLED CloudBuildCalled(k)
            /\ (~cloud.srcErr /\ k < cloud.pos) <=> cloud.hpc[k] # "NotStarted"
  /\ (cloud.phase = "dispatch" /\ cloud.pos <= Len(cloud.eventHandlers)) =>
       ENABLED GoEventHandler
  /\ (cloud.phase = "returned" /\ ~cloud.srcErr) =>
       \A k \in HandlerTasks : cloud.hpc[k] # "NotStarted"

C19_Witness ==
  /\ cloud.phase = "returned"
  /\ ~cloud.srcErr
  /\ Len(cloud.eventHandlers) = 2
  /\ cloud.hpc[1] = "Done" /\ cloud.herr[1] /\ cloud.logged = 1
  /\ cloud.hpc[2] = "Running" /\ cloud.calls[2] = 1

Hung == {i \in Tasks : pc[i] \in {"OpenHung", "SaveHung"}}

\* C20: under fair scheduling, if every stream-open call and every Save call
\* returns, SaveLogs eventually returns (or was never called, discovery
\* having failed); while some request's Save never returns, SaveLogs has not
\* returned, and so never returns.
C20_ReturnsIffCallsReturn ==
  /\ ([](Hung = {})) => <>(mainpc \in {"returned", "discoveryFailed"})
  /\ []((\E i \in Tasks : pc[i] = "SaveHung") => mainpc # "returned")
  /\ [][\A i \in Tasks : pc[i] = "SaveHung" => pc'[i] = "SaveHung"]_vars

C20_Witness ==
  /\ N = 2
  /\ mainpc = "spawn" /\ idx > Len(requests)
  /\ pc[1] = "SaveHung"
  /\ pc[2] = "Done" /\ terr[2] # nil /\ egErr # nil

====
